---- MODULE Spec2Model ----
(***************************************************************************)
(* Gestor de Tareas backend: Backend/server.js and Backend/config/db.js.   *)
(*                                                                         *)
(* The process loads server.js (connectDB() is called, then app.listen),   *)
(* the connection attempt resolves or fails, and the four /api/tasks       *)
(* handlers run.  Each handler is an async function: its synchronous part  *)
(* runs when the request is received, up to the awaited query; the rest    *)
(* runs when the query's result arrives.  The table Tareas lives in SQL    *)
(* Server; every handler issues one statement, executed atomically.        *)
(***************************************************************************)
EXTENDS Integers, Sequences, FiniteSets, TLC

\* ------------------------------------------------------------- bounds
\* Largest id the table hands out, and largest id a request names.
MaxId == 2

\* Number of requests the server receives in one run.
MaxRequests == 3

\* The handlers that may be suspended on a query at the same time.
Slots == {1, 2}

\* ------------------------------------------------------ JavaScript values
UNDEFINED == "<undefined>"
NULL      == "<null>"
JS_TRUE   == "<true>"
JS_FALSE  == "<false>"
JS_ZERO   == "<0>"
JS_ONE    == "<1>"

\* !v is true of these values (every other value is a non-empty string).
Falsy == {UNDEFINED, NULL, JS_FALSE, JS_ZERO, ""}

Truthy(v) == v \notin Falsy

\* v !== undefined
Present(v) == v # UNDEFINED

NoBody == [title |-> UNDEFINED, description |-> UNDEFINED, completed |-> UNDEFINED]

\* Request bodies of POST /api/tasks.
PostBodies ==
  { NoBody,
    [NoBody EXCEPT !.title = "", !.description = "x", !.completed = JS_TRUE],
    [NoBody EXCEPT !.title = "a", !.description = ""],
    [NoBody EXCEPT !.title = "b", !.description = "x", !.completed = JS_TRUE] }

\* Request bodies of PUT /api/tasks/:id.
PutBodies ==
  { NoBody,
    [NoBody EXCEPT !.completed = JS_TRUE],
    [NoBody EXCEPT !.title = "b"],
    [NoBody EXCEPT !.description = NULL, !.completed = NULL] }

Ids == 1..MaxId

VARIABLES
  pc,         \* position of the main script of server.js
  dbPool,     \* let dbPool (server.js:22)
  listening,  \* the port is bound by app.listen
  exited,     \* process.exit(1) was called
  sent,       \* number of requests received so far
  reqs,       \* the request each slot's handler is suspended on, if any
  response,   \* the response sent last
  Tareas,     \* the table: id -> row
  identity,   \* next value of the id column
  clock,      \* next value of createdAt
  driverForm, \* how the driver returns BIT columns
  created,    \* history: what each create submitted, until the task is updated or deleted
  inserted,   \* history: the ids of the rows in the order of their INSERTs
  deleted     \* history: ids removed by a DELETE statement

vars == <<pc, dbPool, listening, exited, sent, reqs, response, Tareas, identity, clock,
          driverForm, created, inserted, deleted>>

\* ------------------------------------------------------------ the table
\* Column defaults of Tareas: completed starts as 0 (false).
DefaultCompleted == 0

\* The id column is an identity column: each INSERT takes the next value.
NextIdentity(n) == n + 1

\* createdAt is assigned by the database at insertion; later rows get later times.
NextCreatedAt(t) == t + 1

EmptyTable == [i \in {} |-> 0]

\* INSERT INTO Tareas (title, description) VALUES (@title, @description):
\* id and createdAt are assigned by the database.
InsertRow(tbl, id, title, description, at) ==
  [i \in (DOMAIN tbl) \cup {id} |->
     IF i = id
       THEN [title |-> title, description |-> description,
             completed |-> DefaultCompleted, createdAt |-> at]
       ELSE tbl[i]]

\* As OrNull, with the description parameter never bound.
OrNullDropped(v) == NULL

\* description || null
OrNull(v) == IF Truthy(v) THEN v ELSE NULL

\* completed ? 1 : 0
ToBit(v) == IF Truthy(v) THEN 1 ELSE 0

\* The names pushed on updateFields for a body.
UpdateFields(body) ==
  {f \in {"title", "description", "completed"} : Present(body[f])}

\* As UpdateSet, with the fields tested by truthiness instead of !== undefined.
UpdateSetTruthy(row, body) ==
  [row EXCEPT
     !.title       = IF Truthy(body.title) THEN body.title ELSE @,
     !.description = IF Truthy(body.description) THEN body.description ELSE @,
     !.completed   = IF Truthy(body.completed) THEN 1 ELSE @]

\* As UpdateSet, with every column written, the absent ones as NULL and 0.
UpdateSetAll(row, body) ==
  [row EXCEPT
     !.title       = IF Present(body.title) THEN body.title ELSE NULL,
     !.description = IF Present(body.description) THEN body.description ELSE NULL,
     !.completed   = IF Truthy(body.completed) THEN 1 ELSE 0]

\* UPDATE Tareas SET <updateFields> WHERE id = @id, applied to the matching row.
UpdateSet(row, body) ==
  [row EXCEPT
     !.title       = IF Present(body.title) THEN body.title ELSE @,
     !.description = IF Present(body.description) THEN body.description ELSE @,
     !.completed   = IF Present(body.completed) THEN ToBit(body.completed) ELSE @]

\* As DeleteRow, with the row left in the table.
DeleteRowKept(tbl, id) == tbl

\* DELETE FROM Tareas WHERE id = @id
DeleteRow(tbl, id) == [i \in (DOMAIN tbl) \ {id} |-> tbl[i]]

\* rowsAffected[0] of a statement filtered by WHERE id = @id
RowsAffected(tbl, id) == IF id \in DOMAIN tbl THEN 1 ELSE 0

\* The driver hands a BIT column back as 1/0 or as true/false.
DriverForms == {"bit", "boolean"}

BitColumn(bit, form) ==
  IF form = "boolean"
    THEN (IF bit = 1 THEN JS_TRUE ELSE JS_FALSE)
    ELSE (IF bit = 1 THEN JS_ONE ELSE JS_ZERO)

\* The columns id, title, description, completed of one row, as the driver returns them.
OutputRow(tbl, id, form) ==
  [id |-> id, title |-> tbl[id].title, description |-> tbl[id].description,
   completed |-> BitColumn(tbl[id].completed, form)]

\* As Newest, for ORDER BY createdAt ASC.
Oldest(tbl, ids) ==
  CHOOSE i \in ids : \A j \in ids : tbl[i].createdAt <= tbl[j].createdAt

\* The row the ORDER BY createdAt DESC puts first among ids.
Newest(tbl, ids) ==
  CHOOSE i \in ids : \A j \in ids : tbl[j].createdAt <= tbl[i].createdAt

RECURSIVE OrderByCreatedAtDesc(_, _)
OrderByCreatedAtDesc(tbl, ids) ==
  IF ids = {} THEN <<>>
  ELSE LET i == Newest(tbl, ids)
       IN  <<i>> \o OrderByCreatedAtDesc(tbl, ids \ {i})

\* SELECT id, title, description, completed FROM Tareas ORDER BY createdAt DESC
SelectAll(tbl, form) ==
  LET order == OrderByCreatedAtDesc(tbl, DOMAIN tbl)
  IN  [k \in 1..Len(order) |-> OutputRow(tbl, order[k], form)]

\* As NormalizeCompleted, without the === 1 test.
NormalizeOnlyTrue(c) == IF c = JS_TRUE THEN JS_TRUE ELSE JS_FALSE

\* completed === true || completed === 1, as a JavaScript boolean
NormalizeCompleted(c) == IF c = JS_TRUE \/ c = JS_ONE THEN JS_TRUE ELSE JS_FALSE

\* { ...task, completed: ... }
NormalizeTask(task) == [task EXCEPT !.completed = NormalizeCompleted(@)]

NormalizeAll(recordset) ==
  [k \in 1..Len(recordset) |-> NormalizeTask(recordset[k])]

\* --------------------------------------------------------------- requests
Idle == [st |-> "idle", op |-> "NONE", id |-> 0, body |-> NoBody, existed |-> FALSE]

\* History: a DELETE came in while :id named a row.
Existed(op, id) == op = "DELETE" /\ id \in DOMAIN Tareas

\* The handler of slot s is suspended at await ... .query(...).
Awaiting(op, id, body) ==
  [st |-> "awaiting", op |-> op, id |-> id, body |-> body, existed |-> Existed(op, id)]

InFlight == {t \in Slots : reqs[t].st = "awaiting"}

NoPeer ==
  [op |-> "NONE", id |-> 0, body |-> NoBody, status |-> 0, err |-> FALSE,
   existed |-> FALSE]

NoResponse ==
  [op |-> "NONE", id |-> 0, body |-> NoBody, status |-> 0, rowsAffected |-> 0,
   recordset |-> <<>>, payload |-> <<>>, queried |-> FALSE, err |-> FALSE,
   existed |-> FALSE, during |-> {}, peer |-> NoPeer]

\* res.status(code) sent before any query was issued; during are the slots
\* whose requests are in flight when the response is sent.
Reply(op, id, body, code) ==
  [NoResponse EXCEPT !.op = op, !.id = id, !.body = body, !.status = code,
                     !.existed = Existed(op, id), !.during = InFlight]

\* What a later response remembers of the response sent before it.
Summary(r) ==
  [op |-> r.op, id |-> r.id, body |-> r.body, status |-> r.status, err |-> r.err,
   existed |-> r.existed]

\* History: the response sent just before slot s's, when that one answered an
\* update or a delete of the same task while slot s was waiting.
Peer(s) ==
  IF /\ s \in response.during
     /\ reqs[s].op \in {"PUT", "DELETE"}
     /\ response.op = reqs[s].op
     /\ response.id = reqs[s].id
    THEN Summary(response)
    ELSE NoPeer

\* The response of slot s once its query has returned.
Answer(s, code, rows, recordset, payload) ==
  [op |-> reqs[s].op, id |-> reqs[s].id, body |-> reqs[s].body, status |-> code,
   rowsAffected |-> rows, recordset |-> recordset, payload |-> payload,
   queried |-> TRUE, err |-> FALSE, existed |-> reqs[s].existed,
   during |-> InFlight \ {s},
   peer |-> Peer(s)]

\* As TitleMissing, testing title === undefined only.
TitleUndefined(body) == body.title = UNDEFINED

\* if (!title) of the create handler
TitleMissing(body) == ~Truthy(body.title)

\* if (updateFields.length === 0) of the update handler
NothingToUpdate(body) == UpdateFields(body) = {}

\* Status of the update and delete handlers from rowsAffected[0].
UpdateStatus(rows) == IF rows = 0 THEN 404 ELSE 200

DeleteStatus(rows) == IF rows = 0 THEN 404 ELSE 204

Accepting(s) ==
  /\ listening
  /\ ~exited
  /\ reqs[s].st = "idle"
  /\ sent < MaxRequests

\* The request is answered at once with code.
Reject(op, id, body, code) ==
  /\ response' = Reply(op, id, body, code)
  /\ sent' = sent + 1
  /\ UNCHANGED reqs

\* The request's query is issued and slot s waits for it.
Issue(s, op, id, body) ==
  /\ reqs' = [reqs EXCEPT ![s] = Awaiting(op, id, body)]
  /\ sent' = sent + 1
  /\ UNCHANGED response

\* ---------------------------------------------------------------- startup
\* server.js:23  connectDB() is called; its promise is pending.
CallConnectDB ==
  /\ pc = "load"
  /\ pc' = "connecting"
  /\ UNCHANGED <<sent, dbPool, listening, exited, reqs, response, Tareas, identity, clock,
                 driverForm, created, inserted, deleted>>

\* server.js:153  app.listen(PORT, ...) runs in the same script, unconditionally.
AppListen ==
  /\ pc = "connecting"
  /\ pc' = "loaded"
  /\ listening' = TRUE
  /\ UNCHANGED <<sent, dbPool, exited, reqs, response, Tareas, identity, clock,
                 driverForm, created, inserted, deleted>>

\* pool.connect() succeeded: connectDB returns the pool, .then assigns dbPool.
ConnectResolved ==
  /\ pc = "loaded"
  /\ ~exited
  /\ dbPool = UNDEFINED
  /\ dbPool' = "pool"
  /\ UNCHANGED <<sent, pc, listening, exited, reqs, response, Tareas, identity, clock,
                 driverForm, created, inserted, deleted>>

\* pool.connect() failed: process.exit(1).
ConnectFailed ==
  /\ pc = "loaded"
  /\ ~exited
  /\ dbPool = UNDEFINED
  /\ exited' = TRUE
  /\ listening' = FALSE
  /\ UNCHANGED <<sent, pc, dbPool, reqs, response, Tareas, identity, clock,
                 driverForm, created, inserted, deleted>>

\* --------------------------------------------- handlers, up to the await
\* GET /api/tasks
ReceiveGet(s) ==
  /\ Accepting(s)
  /\ IF dbPool = UNDEFINED
       THEN Reject("GET", 0, NoBody, 500)
       ELSE Issue(s, "GET", 0, NoBody)
  /\ UNCHANGED <<pc, dbPool, listening, exited, Tareas, identity, clock,
                 driverForm, created, inserted, deleted>>

\* POST /api/tasks
ReceivePost(s, body) ==
  /\ Accepting(s)
  /\ IF TitleMissing(body) THEN Reject("POST", 0, body, 400)
     ELSE IF dbPool = UNDEFINED THEN Reject("POST", 0, body, 500)
     ELSE Issue(s, "POST", 0, body)
  /\ UNCHANGED <<pc, dbPool, listening, exited, Tareas, identity, clock,
                 driverForm, created, inserted, deleted>>

\* PUT /api/tasks/:id  (dbPool.request() comes before the updateFields test)
ReceivePut(s, id, body) ==
  /\ Accepting(s)
  /\ IF dbPool = UNDEFINED THEN Reject("PUT", id, body, 500)
     ELSE IF NothingToUpdate(body) THEN Reject("PUT", id, body, 400)
     ELSE Issue(s, "PUT", id, body)
  /\ UNCHANGED <<pc, dbPool, listening, exited, Tareas, identity, clock,
                 driverForm, created, inserted, deleted>>

\* DELETE /api/tasks/:id
ReceiveDelete(s, id) ==
  /\ Accepting(s)
  /\ IF dbPool = UNDEFINED
       THEN Reject("DELETE", id, NoBody, 500)
       ELSE Issue(s, "DELETE", id, NoBody)
  /\ UNCHANGED <<pc, dbPool, listening, exited, Tareas, identity, clock,
                 driverForm, created, inserted, deleted>>

\* ------------------------------------- handlers, after the awaited query
Returns(s, op) ==
  /\ ~exited
  /\ reqs[s].st = "awaiting"
  /\ reqs[s].op = op
  /\ reqs' = [reqs EXCEPT ![s] = Idle]

\* f without the key id
Without(f, id) == [i \in (DOMAIN f) \ {id} |-> f[i]]

\* GET /api/tasks: the SELECT returns; the rows are mapped and sent.
ExecSelect(s) ==
  /\ Returns(s, "GET")
  /\ LET recordset == SelectAll(Tareas, driverForm)
     IN  response' = Answer(s, 200, Len(recordset), recordset, NormalizeAll(recordset))
  /\ UNCHANGED <<sent, pc, dbPool, listening, exited, Tareas, identity, clock,
                 driverForm, created, inserted, deleted>>

\* POST /api/tasks: the INSERT ... OUTPUT INSERTED.* returns the new row.
ExecInsert(s) ==
  /\ Returns(s, "POST")
  /\ identity <= MaxId
  /\ Tareas' = InsertRow(Tareas, identity, reqs[s].body.title,
                         OrNull(reqs[s].body.description), clock)
  /\ identity' = NextIdentity(identity)
  /\ clock' = NextCreatedAt(clock)
  /\ LET newTask == OutputRow(Tareas', identity, driverForm)
     IN  response' = Answer(s, 201, 1, <<newTask>>, <<NormalizeTask(newTask)>>)
  /\ created' = [i \in (DOMAIN created) \cup {identity} |->
                   IF i = identity
                     THEN [title |-> reqs[s].body.title,
                           description |-> reqs[s].body.description]
                     ELSE created[i]]
  /\ inserted' = Append(inserted, identity)
  /\ UNCHANGED <<sent, pc, dbPool, listening, exited, driverForm, deleted>>

\* PUT /api/tasks/:id: the UPDATE ... OUTPUT INSERTED.* WHERE id = @id returns.
ExecUpdate(s) ==
  /\ Returns(s, "PUT")
  /\ LET id   == reqs[s].id
         rows == RowsAffected(Tareas, id)
     IN  IF rows = 0
           THEN /\ response' = Answer(s, UpdateStatus(rows), rows, <<>>, <<>>)
                /\ UNCHANGED <<Tareas, created>>
           ELSE /\ Tareas' = [Tareas EXCEPT ![id] = UpdateSet(@, reqs[s].body)]
                /\ created' = Without(created, id)
                /\ LET updatedTask == OutputRow(Tareas', id, driverForm)
                   IN  response' = Answer(s, UpdateStatus(rows), rows, <<updatedTask>>,
                                          <<NormalizeTask(updatedTask)>>)
  /\ UNCHANGED <<sent, pc, dbPool, listening, exited, identity, clock, driverForm,
                 inserted, deleted>>

\* DELETE /api/tasks/:id: the DELETE ... WHERE id = @id returns.
ExecDelete(s) ==
  /\ Returns(s, "DELETE")
  /\ LET id   == reqs[s].id
         rows == RowsAffected(Tareas, id)
     IN  /\ Tareas' = DeleteRow(Tareas, id)
         /\ deleted' = IF rows = 0 THEN deleted ELSE deleted \cup {id}
         /\ created' = Without(created, id)
         /\ response' = Answer(s, DeleteStatus(rows), rows, <<>>, <<>>)
  /\ UNCHANGED <<sent, pc, dbPool, listening, exited, identity, clock, driverForm,
                 inserted>>

\* The awaited query rejects: the handler's catch answers 500.
QueryFails(s) ==
  /\ ~exited
  /\ reqs[s].st = "awaiting"
  /\ reqs' = [reqs EXCEPT ![s] = Idle]
  /\ response' = [Answer(s, 500, 0, <<>>, <<>>) EXCEPT !.err = TRUE]
  /\ UNCHANGED <<sent, pc, dbPool, listening, exited, Tareas, identity, clock,
                 driverForm, created, inserted, deleted>>

\* ------------------------------------------------------- specification
\* A row left in the table by an earlier run of the server.
EarlierRow == [title |-> "a", description |-> NULL, completed |-> 1, createdAt |-> 1]

Init ==
  /\ pc = "load"
  /\ dbPool = UNDEFINED
  /\ listening = FALSE
  /\ exited = FALSE
  /\ sent = 0
  /\ reqs = [s \in Slots |-> Idle]
  /\ response = NoResponse
  /\ \E kept \in BOOLEAN :
       /\ Tareas = IF kept THEN [i \in {1} |-> EarlierRow] ELSE EmptyTable
       /\ identity = IF kept THEN 2 ELSE 1
       /\ clock = IF kept THEN 2 ELSE 1
  /\ driverForm \in DriverForms
  /\ created = EmptyTable
  /\ inserted = [k \in 1..(identity - 1) |-> k]
  /\ deleted = {}

Next ==
  \/ CallConnectDB
  \/ AppListen
  \/ ConnectResolved
  \/ ConnectFailed
  \/ \E s \in Slots : ReceiveGet(s)
  \/ \E s \in Slots, body \in PostBodies : ReceivePost(s, body)
  \/ \E s \in Slots, id \in Ids, body \in PutBodies : ReceivePut(s, id, body)
  \/ \E s \in Slots, id \in Ids : ReceiveDelete(s, id)
  \/ \E s \in Slots : ExecSelect(s)
  \/ \E s \in Slots : ExecInsert(s)
  \/ \E s \in Slots : ExecUpdate(s)
  \/ \E s \in Slots : ExecDelete(s)
  \/ \E s \in Slots : QueryFails(s)

Spec == Init /\ [][Next]_vars

\* ----------------------------------------------------------- properties
Fields == {"title", "description", "completed"}

\* The column value an update stores for field f given the body's value v.
Stored(f, v) == IF f = "completed" THEN (IF Truthy(v) THEN 1 ELSE 0) ELSE v

\* A description as the table holds it: absent and empty are stored as NULL.
StoredDescription(d) == IF d \in {UNDEFINED, ""} THEN NULL ELSE d

\* Slot s's update statement runs in this step and matches a row.
UpdateSucceeds(s) ==
  /\ reqs[s].st = "awaiting"
  /\ reqs[s].op = "PUT"
  /\ reqs'[s].st = "idle"
  /\ response'.status = 200

\* C1: the server listens only once connectDB has resolved and dbPool is
\* assigned; if the connection fails the server never listens.
C1_ListensOnlyAfterConnect == listening => dbPool = "pool"

\* C2: a POST whose title is absent or empty is answered 400 without any
\* query, whatever else the body carries, and the stored tasks stay as they are.
C2_EmptyTitleRejected ==
  /\ [](response.op = "POST" /\ response.body.title \in {UNDEFINED, NULL, ""}
          => response.status = 400 /\ ~response.queried)
  /\ [][(/\ response' # response
         /\ response'.op = "POST"
         /\ response'.body.title \in {UNDEFINED, NULL, ""})
          => /\ Tareas' = Tareas
             /\ identity' = identity
             /\ reqs' = reqs]_vars

C2_Witness ==
  /\ response.op = "POST"
  /\ response.body.title = ""
  /\ response.body.completed = JS_TRUE
  /\ response.status = 400
  /\ dbPool = "pool"
  /\ Tareas # EmptyTable

\* C3: a successful PUT writes exactly the fields present in the body (a null
\* field is present and is written) and leaves the absent fields, the id,
\* createdAt and every other task as they were.
C3_PartialUpdate ==
  [][\A s \in Slots :
       UpdateSucceeds(s) =>
         LET id   == reqs[s].id
             body == reqs[s].body
         IN  /\ id \in DOMAIN Tareas
             /\ DOMAIN Tareas' = DOMAIN Tareas
             /\ \A i \in (DOMAIN Tareas) \ {id} : Tareas'[i] = Tareas[i]
             /\ \A f \in Fields :
                  Tareas'[id][f] = IF body[f] = UNDEFINED THEN Tareas[id][f]
                                   ELSE Stored(f, body[f])
             /\ Tareas'[id].createdAt = Tareas[id].createdAt
             /\ response'.payload[1].id = id
             /\ response'.payload[1].title = Tareas'[id].title
             /\ response'.payload[1].description = Tareas'[id].description]_vars

\* A task created with title "b", description "x" was updated with {completed: true}.
C3_Witness ==
  /\ response.op = "PUT"
  /\ response.status = 200
  /\ response.body = [NoBody EXCEPT !.completed = JS_TRUE]
  /\ response.id \in DOMAIN Tareas
  /\ Tareas[response.id].title = "b"
  /\ Tareas[response.id].description = "x"
  /\ Tareas[response.id].completed = 1

\* C4: a PUT whose body has none of title, description, completed is answered
\* 400 without a query, in every state in which the server accepts requests.
C4_EmptyUpdateRejected ==
  response.op = "PUT" /\ UpdateFields(response.body) = {}
    => response.status = 400 /\ ~response.queried

\* C5: a PUT with a field, or a DELETE, on an id that names no stored task is
\* answered 404 (the database reporting no error) and leaves the table alone.
C5_MissingIdNotFound ==
  /\ \/ response.op = "PUT" /\ UpdateFields(response.body) # {}
     \/ response.op = "DELETE"
  /\ ~response.err
  /\ response.rowsAffected = 0
  /\ response.id \notin DOMAIN Tareas
  => response.status = 404

\* The task with this id as a list shows it.
Listed(id) == {k \in 1..Len(response.payload) : response.payload[k].id = id}

\* C6 as stated: a list after a successful create shows the created task with
\* the submitted title and description (null for an absent one), not completed.
C6_CreateThenListAsSubmitted ==
  response.op = "GET" /\ response.status = 200 =>
    \A id \in DOMAIN created :
      \E k \in Listed(id) :
        response.payload[k] =
          [id |-> id, title |-> created[id].title,
           description |-> IF created[id].description = UNDEFINED THEN NULL
                           ELSE created[id].description,
           completed |-> JS_FALSE]

\* C6 amended: a list after a successful create shows the created task with
\* the submitted title, the submitted description or null when that was
\* absent or empty, and completed false.
C6_CreateThenList ==
  response.op = "GET" /\ response.status = 200 =>
    \A id \in DOMAIN created :
      \E k \in Listed(id) :
        response.payload[k] =
          [id |-> id, title |-> created[id].title,
           description |-> StoredDescription(created[id].description),
           completed |-> JS_FALSE]

C6_Witness ==
  /\ response.op = "GET"
  /\ response.status = 200
  /\ \E id \in DOMAIN created :
       /\ created[id].description = ""
       /\ \E k \in Listed(id) : response.payload[k].description = NULL

\* C7: once a DELETE has removed a task, no list shows it and no create
\* returns its id again.
C7_DeletedStaysGone ==
  /\ (DOMAIN Tareas) \cap deleted = {}
  /\ response.op = "GET" /\ response.status = 200
       => \A k \in 1..Len(response.payload) : response.payload[k].id \notin deleted
  /\ response.op = "POST" /\ response.status = 201
       => response.payload[1].id \notin deleted

\* A task was deleted, another created after it, and the list shows only that one.
C7_Witness ==
  /\ response.op = "GET"
  /\ response.status = 200
  /\ deleted # {}
  /\ Len(response.payload) = 1
  /\ created # EmptyTable

\* Place of id in the order of the INSERTs.
InsertedAt(id) == CHOOSE k \in 1..Len(inserted) : inserted[k] = id

\* C8: a list holds the stored tasks, later inserted first, whatever updates
\* the tasks have had.
C8_NewestFirst ==
  response.op = "GET" /\ response.status = 200 =>
    /\ {response.payload[k].id : k \in 1..Len(response.payload)} = DOMAIN Tareas
    /\ \A i, j \in 1..Len(response.payload) :
         i < j => InsertedAt(response.payload[i].id) > InsertedAt(response.payload[j].id)

\* Two tasks are listed, the newer first; the older one has been updated.
C8_Witness ==
  /\ response.op = "GET"
  /\ response.status = 200
  /\ Len(response.payload) = 2
  /\ response.payload[1].id = 2
  /\ response.payload[2].id = 1
  /\ response.payload[2].title = "b"
  /\ 1 \notin DOMAIN created
  /\ 2 \in DOMAIN created

\* C9: every task of a successful list, create or update response has a
\* strict boolean completed, true exactly when the driver returned 1 or true;
\* an update that supplies completed stores 1 for a truthy value and 0
\* otherwise and returns that truthiness.
C9_StrictBoolean ==
  /\ response.op \in {"GET", "POST", "PUT"} /\ response.status \in {200, 201}
       => /\ Len(response.payload) = Len(response.recordset)
          /\ \A k \in 1..Len(response.payload) :
               /\ response.recordset[k].completed \in {JS_ZERO, JS_ONE, JS_TRUE, JS_FALSE}
               /\ response.payload[k].completed \in {JS_TRUE, JS_FALSE}
               /\ response.payload[k].completed = JS_TRUE
                    <=> response.recordset[k].completed \in {JS_ONE, JS_TRUE}
  /\ response.op = "PUT" /\ response.status = 200 /\ response.body.completed # UNDEFINED
       => /\ Tareas[response.id].completed =
               IF response.body.completed \in Falsy THEN 0 ELSE 1
          /\ response.payload[1].completed =
               IF response.body.completed \in Falsy THEN JS_FALSE ELSE JS_TRUE

C9_Witness ==
  /\ response.op = "PUT"
  /\ response.status = 200
  /\ response.body.completed = JS_TRUE
  /\ response.recordset[1].completed = JS_ONE
  /\ response.payload[1].completed = JS_TRUE

\* C10: two updates of one task, in flight together, with disjoint fields and
\* both successful, leave the task with the values of both; two deletes of
\* one task that existed when each came in, in flight together and executed by
\* the database, are answered one 204 and one 404.
C10_Concurrent ==
  LET p == response.peer
  IN  /\ (/\ response.op = "PUT" /\ p.op = "PUT"
          /\ response.status = 200 /\ p.status = 200
          /\ UpdateFields(response.body) \cap UpdateFields(p.body) = {})
         => /\ response.id \in DOMAIN Tareas
            /\ \A f \in UpdateFields(p.body) :
                 Tareas[response.id][f] = Stored(f, p.body[f])
            /\ \A f \in UpdateFields(response.body) :
                 Tareas[response.id][f] = Stored(f, response.body[f])
      /\ (/\ response.op = "DELETE" /\ p.op = "DELETE"
          /\ ~response.err /\ ~p.err
          /\ response.existed /\ p.existed)
         => {response.status, p.status} = {204, 404}

\* {title: "b"} and {description: null, completed: null} on the task the
\* earlier run left with title "a" and completed 1.
C10_Witness ==
  /\ response.op = "PUT"
  /\ response.peer.op = "PUT"
  /\ response.status = 200
  /\ response.peer.status = 200
  /\ UpdateFields(response.body) \cap UpdateFields(response.peer.body) = {}
  /\ response.id = 1
  /\ Tareas[1].title = "b"
  /\ Tareas[1].completed = 0

\* Two deletes of one stored task, in flight together, are both answered.
C10_DeleteWitness ==
  /\ response.op = "DELETE"
  /\ response.peer.op = "DELETE"
  /\ response.existed
  /\ response.peer.existed
  /\ response.status = 404
  /\ response.peer.status = 204

====
